---- MODULE Spec2Model ----
(***************************************************************************)
(* The fixed-capacity little-endian decimal digit buffer of               *)
(* experiments/src/big_int.hpp (namespace big_int) and its implementation. *)
(* Characters are ASCII codes, digits are 8-bit values, indices are        *)
(* unsigned and wrap at SIZE_MOD.                                          *)
(***************************************************************************)
EXTENDS Integers, Sequences, FiniteSets, TLC

\* ------------------------------------------------------------------ bounds

\* Number of slots of `Digit digits[0x40]`, scaled down for model checking.
NUM_DIGITS == 3

\* Operations applied to one buffer after its construction.
MaxOps == 2

\* Width in bits of Index (std::size_t), scaled down for model checking.
IndexBits == 16

\* The capacity next_power_of_2() starts from: 8 in the code, scaled down.
MinCapacity == 2

\* Calls made on one DyArray.
MaxDyOps == 2

\* ------------------------------------------------------- program constants

DIGIT_BASE == 10

\* Digit = std::uint8_t
DigitMod == 256

SIZE_MOD == 2 ^ IndexBits

\* ------------------------------------------------------------- input sets

\* ' ', '_', '0', '1', '9', ':', 'a'
Chars == {32, 95, 47, 48, 49, 57, 58, 97}

MaxTextLen == NUM_DIGITS + 1

RECURSIVE SeqsUpTo(_, _)
SeqsUpTo(S, n) ==
    IF n = 0 THEN {<< >>}
    ELSE LET shorter == SeqsUpTo(S, n - 1)
         IN  shorter \cup {Append(s, c) : s \in {t \in shorter : Len(t) = n - 1}, c \in S}

Texts == SeqsUpTo(Chars, MaxTextLen)

\* Digit arguments: valid digits and the first invalid one.
DigitArgs == {0, 1, 9, 10}

\* Index arguments: every slot, the first index past the slots, a far one.
IndexArgs == (0 .. NUM_DIGITS) \cup {10000}

\* Arguments of add().
IntArgs == {-1, 0, 2, 19, 101}

\* What a read outside the digits array may yield.
GarbageBytes == {0, 7, 255}

\* ------------------------------------------------------------- the buffer

Slots == 0 .. (NUM_DIGITS - 1)

\* The outcome of one call: the buffer afterwards, the bool result (TRUE for
\* a void function), the returned digit, whether the call read or wrote
\* outside digits[0 .. NUM_DIGITS-1], whether it ran off through memory,
\* and the number of iterations of add_at's carry loop.
Outcome(self) ==
    [self |-> self, ok |-> TRUE, ret |-> 0, oobR |-> FALSE, oobW |-> FALSE,
     crash |-> FALSE, iters |-> 0]

\* self.digits[k] with no bounds check; g is what lies outside the array.
RawRead(digits, k, g) == IF k \in DOMAIN digits THEN digits[k] ELSE g

\* self.digits[k] = v with no bounds check; a write outside lands elsewhere.
RawWrite(digits, k, v) == IF k \in DOMAIN digits THEN [digits EXCEPT ![k] = v] ELSE digits

check_digit(d) == 0 <= d /\ d < DIGIT_BASE

check_index(self, i) == 0 <= i /\ i < self.capacity

create ==
    [digits |-> [k \in Slots |-> 0], length |-> 0, capacity |-> NUM_DIGITS]

\* read_at addressing the array from its far end.
read_at_reversed(self, i) ==
    IF check_index(self, i) THEN self.digits[self.capacity - 1 - i] ELSE 0

read_at(self, i) == IF check_index(self, i) THEN self.digits[i] ELSE 0

\* write_at accepting i == capacity.
write_at_inclusive(self, i, d) ==
    IF i <= self.capacity
    THEN [Outcome([self EXCEPT !.digits = RawWrite(@, i, d),
                               !.length = IF i >= self.length THEN i + 1 ELSE @])
            EXCEPT !.ok = TRUE]
    ELSE [Outcome(self) EXCEPT !.ok = FALSE]

\* write_at setting length to i + 1 on every write.
write_at_always_grow(self, i, d) ==
    IF check_index(self, i)
    THEN [Outcome([self EXCEPT !.digits[i] = d, !.length = i + 1])
            EXCEPT !.ok = TRUE]
    ELSE [Outcome(self) EXCEPT !.ok = FALSE]

write_at(self, i, d) ==
    IF check_index(self, i)
    THEN [Outcome([self EXCEPT !.digits[i] = d,
                               !.length = IF i >= self.length THEN i + 1 ELSE @])
            EXCEPT !.ok = TRUE]
    ELSE [Outcome(self) EXCEPT !.ok = FALSE]

\* push_left without its check_digit() branch.
push_left_unchecked(self, d) ==
    IF self.length >= self.capacity THEN [Outcome(self) EXCEPT !.ok = FALSE]
    ELSE Outcome([self EXCEPT !.digits[self.length] = d, !.length = @ + 1])

\* push_left with length grown before the digit is stored.
push_left_after_grow(self, d) ==
    IF self.length >= self.capacity THEN [Outcome(self) EXCEPT !.ok = FALSE]
    ELSE IF ~check_digit(d) THEN [Outcome(self) EXCEPT !.ok = FALSE]
    ELSE Outcome([self EXCEPT !.digits = RawWrite(@, self.length + 1, d), !.length = @ + 1])

\* push_left doubling capacity where the code has its "Need resize" return.
push_left_growing(self, d) ==
    IF self.length >= self.capacity
    THEN [Outcome([self EXCEPT !.capacity = @ * 2]) EXCEPT !.ok = FALSE]
    ELSE IF ~check_digit(d) THEN [Outcome(self) EXCEPT !.ok = FALSE]
    ELSE Outcome([self EXCEPT !.digits[self.length] = d, !.length = @ + 1])

push_left(self, d) ==
    IF self.length >= self.capacity THEN [Outcome(self) EXCEPT !.ok = FALSE]
    ELSE IF ~check_digit(d) THEN [Outcome(self) EXCEPT !.ok = FALSE]
    ELSE Outcome([self EXCEPT !.digits[self.length] = d, !.length = @ + 1])

pop_left(self, g) ==
    IF self.length = 0 THEN Outcome(self)
    ELSE LET i == self.length - 1
         IN  [Outcome([self EXCEPT !.length = @ - 1])
                EXCEPT !.ret = RawRead(self.digits, i, g),
                       !.oobR = i \notin Slots]

\* for (MutRevIt it = rbegin(self); it != rend(self); it++) *it = it[1];
\* k is it.base() - digits: *it is digits[k-1], it[1] is digits[k-2].
\* shift_left1's loop with it[-1] where the code has it[1].
RECURSIVE shift_left1_loop_minus1(_, _, _)
shift_left1_loop_minus1(digits, k, g) ==
    IF k = 0 THEN digits
    ELSE shift_left1_loop_minus1(RawWrite(digits, k - 1, RawRead(digits, k, g)), k - 1, g)

\* shift_left1's loop walking up from begin(): a digit is overwritten before
\* it is read.
RECURSIVE shift_left1_loop_forward(_, _, _)
shift_left1_loop_forward(digits, k, g) ==
    IF k = 0 THEN digits
    ELSE LET lower == shift_left1_loop_forward(digits, k - 1, g)
         IN  RawWrite(lower, k - 1, RawRead(lower, k - 2, g))

RECURSIVE shift_left1_loop(_, _, _)
shift_left1_loop(digits, k, g) ==
    IF k = 0 THEN digits
    ELSE shift_left1_loop(RawWrite(digits, k - 1, RawRead(digits, k - 2, g)), k - 1, g)

shift_left1(self, g) ==
    IF self.length >= self.capacity THEN [Outcome(self) EXCEPT !.ok = FALSE]
    ELSE LET len    == self.length + 1
             moved  == shift_left1_loop(self.digits, len, g)
         IN  [Outcome([self EXCEPT !.digits = [moved EXCEPT ![0] = 0],
                                   !.length = len])
                EXCEPT !.oobR = TRUE]

push_right(self, d, g) ==
    IF check_digit(d)
    THEN LET r == shift_left1(self, g)
         IN  [r EXCEPT !.self.digits[0] = d, !.ok = TRUE]
    ELSE Outcome(self)

\* shift_right1's loop walking down from end(): a digit is overwritten before
\* it is read.
RECURSIVE shift_right1_loop_reverse(_, _, _, _)
shift_right1_loop_reverse(digits, i, len, g) ==
    IF i = len THEN digits
    ELSE shift_right1_loop_reverse(RawWrite(digits, len - 1, RawRead(digits, len, g)),
                                   i, len - 1, g)

\* for (MutFwdIt it = begin(self); it != end(self); it++) *it = it[1];
RECURSIVE shift_right1_loop(_, _, _, _)
shift_right1_loop(digits, i, len, g) ==
    IF i = len THEN digits
    ELSE shift_right1_loop(RawWrite(digits, i, RawRead(digits, i + 1, g)), i + 1, len, g)

shift_right1(self, g) ==
    IF self.length > NUM_DIGITS
    THEN \* end(self) lies below begin(self): the loop runs through memory.
         [Outcome(self) EXCEPT !.crash = TRUE, !.oobR = TRUE, !.oobW = TRUE]
    ELSE LET moved == shift_right1_loop(self.digits, 0, self.length, g)
             top   == (self.length - 1) % SIZE_MOD
         IN  [Outcome([self EXCEPT !.digits = RawWrite(moved, top, 0),
                                   !.length = top])
                EXCEPT !.oobR = (self.length >= NUM_DIGITS),
                       !.oobW = (top \notin Slots)]

pop_right(self, g) ==
    IF self.length = 0 THEN Outcome(self)
    ELSE [shift_right1(self, g) EXCEPT !.ret = self.digits[0]]

\* add_at's loop without its `else carry = 0` branch: carry keeps the 1 it
\* was initialized to.
RECURSIVE add_at_loop_carry_kept(_, _, _, _)
add_at_loop_carry_kept(self, index, digit, n) ==
    LET sum0  == read_at(self, index) + digit
        carry == IF sum0 >= DIGIT_BASE THEN sum0 \div DIGIT_BASE ELSE 1
        sum   == IF sum0 >= DIGIT_BASE THEN sum0 % DIGIT_BASE ELSE sum0
        w     == write_at(self, index, sum)
    IN  IF ~w.ok
        THEN [Outcome(w.self) EXCEPT !.iters = n + 1]
        ELSE add_at_loop_carry_kept(w.self, (index + 1) % SIZE_MOD, carry % DigitMod, n + 1)

RECURSIVE add_at_loop(_, _, _, _)
add_at_loop(self, index, digit, n) ==
    LET sum0  == read_at(self, index) + digit
        carry == IF sum0 >= DIGIT_BASE THEN sum0 \div DIGIT_BASE ELSE 0
        sum   == IF sum0 >= DIGIT_BASE THEN sum0 % DIGIT_BASE ELSE sum0
        w     == write_at(self, index, sum)
    IN  IF ~w.ok \/ carry = 0
        THEN [Outcome(w.self) EXCEPT !.iters = n + 1]
        ELSE add_at_loop(w.self, (index + 1) % SIZE_MOD, carry % DigitMod, n + 1)

\* add_at without its check_digit() return.
add_at_unchecked(self, i, d) == add_at_loop(self, i, d, 0)

add_at(self, i, d) ==
    IF ~check_digit(d) THEN Outcome(self)
    ELSE add_at_loop(self, i, d, 0)

\* add's loop run once before its `next != 0` test.
RECURSIVE add_loop_test_last(_, _, _)
add_loop_test_last(self, next, index) ==
    LET after == add_at(self, index, next % DIGIT_BASE).self
    IN  IF next \div DIGIT_BASE = 0
        THEN [Outcome(after) EXCEPT !.iters = index + 1]
        ELSE add_loop_test_last(after, next \div DIGIT_BASE, index + 1)

\* while (next != 0) { ...; add_at(self, cur.index, cur.digit); cur.index += 1; }
\* iters is cur.index at the end: the number of add_at calls made.
RECURSIVE add_loop(_, _, _)
add_loop(self, next, index) ==
    IF next = 0 THEN [Outcome(self) EXCEPT !.iters = index]
    ELSE add_loop(add_at(self, index, next % DIGIT_BASE).self,
                  next \div DIGIT_BASE, index + 1)

\* add taking the magnitude of a negative n.
add_magnitude(self, n) ==
    IF n < 0 THEN add_loop(self, 0 - n, 0)
    ELSE add_loop(self, n, 0)

add(self, n) ==
    IF n < 0 THEN Outcome(self)
    ELSE add_loop(self, n, 0)

\* isspace() in the "C" locale.
isspace(ch) == ch \in {32, 9, 10, 11, 12, 13}

\* `ch - '0'` reduced to a decimal digit.
CharToDigit_mod10(ch) == (ch - 48) % DIGIT_BASE

\* `ch - '0'` passed as a Digit.
CharToDigit(ch) == (ch - 48) % DigitMod

\* copy_string's loop over sv.begin() .. sv.end() instead of rbegin/rend.
RECURSIVE copy_string_loop_forward(_, _, _)
copy_string_loop_forward(self, sv, k) ==
    IF k = 0 THEN self
    ELSE LET ch == sv[Len(sv) - k + 1]
         IN  IF isspace(ch) \/ ch = 95
             THEN copy_string_loop_forward(self, sv, k - 1)
             ELSE copy_string_loop_forward(push_left(self, CharToDigit(ch)).self, sv, k - 1)

\* for (auto it = sv.rbegin(); it != sv.rend(); it++): k characters are left,
\* sv[k] (1-based) is *it.
RECURSIVE copy_string_loop(_, _, _)
copy_string_loop(self, sv, k) ==
    IF k = 0 THEN self
    ELSE LET ch == sv[k]
         IN  IF isspace(ch) \/ ch = 95
             THEN copy_string_loop(self, sv, k - 1)
             ELSE copy_string_loop(push_left(self, CharToDigit(ch)).self, sv, k - 1)

copy_string(sv) == copy_string_loop(create, sv, Len(sv))

\* printf("%u", v)
RECURSIVE FormatUnsigned(_)
FormatUnsigned(v) ==
    IF v < 10 THEN << 48 + v >>
    ELSE FormatUnsigned(v \div 10) \o << 48 + (v % 10) >>

\* for (ConstRevIt it = rbegin(self); it != rend(self); it++) printf("%u", *it);
RECURSIVE print_loop(_, _)
print_loop(digits, k) ==
    IF k = 0 THEN << >>
    ELSE FormatUnsigned(digits[k - 1]) \o print_loop(digits, k - 1)

print(self) ==
    IF self.length > NUM_DIGITS
    THEN [out |-> << >>, crash |-> TRUE]
    ELSE [out |-> print_loop(self.digits, self.length), crash |-> FALSE]

\* ------------------------------------------------------------ the DyArray
\* src/src/dyarray.c, lines 1-453: new, get, set, insert, push, resize.

\* Numbers stored in an array.
NumberArgs == {0, 7}

\* Tables passed to dyarray.new().
MaxTableLen == MinCapacity + 1

Tables == SeqsUpTo({5, 7}, MaxTableLen)

\* The index past every index used below: 100000 in the tests.
FarIndex == 100000

\* Lua indexes passed to get and set.
MaxLuaIndex == 2 * MinCapacity + 1

LuaIndexArgs == (0 - MinCapacity - 1 .. MaxLuaIndex) \cup {FarIndex}

\* Lua indexes passed to insert.
InsertIndexArgs == 0 - MinCapacity - 1 .. MaxLuaIndex

\* Lengths passed to resize.
LengthArgs == -1 .. MaxLuaIndex

\* What newly allocated or foreign memory may hold.
GarbageNumbers == {0, 3}

\* The outcome of one call: the array afterwards, the error raised ("" for
\* none), the number returned, and whether the call read or wrote outside
\* values[0 .. capacity-1].
DyOutcome(self) ==
    [self |-> self, err |-> "", ret |-> 0, oobR |-> FALSE, oobW |-> FALSE]

DyError(self, msg) == [DyOutcome(self) EXCEPT !.err = msg]

\* resolve_index without the step from 1-based to 0-based.
resolve_index_same_base(self, i) == IF i < 0 THEN self.length + i ELSE i

resolve_index(self, i) == IF i < 0 THEN self.length + i ELSE i - 1

\* luaL_argcheck(L, 0 <= i && i < self->length, argn, "index out of range")
argcheck_index(self, i) ==
    LET c_idx == resolve_index(self, i)
    IN  0 <= c_idx /\ c_idx < self.length

c_clear_values(dst, start, stop) ==
    [k \in DOMAIN dst |-> IF start <= k /\ k < stop THEN 0 ELSE dst[k]]

RECURSIVE next_power_of_2_loop(_, _)
next_power_of_2_loop(n, x) ==
    IF n < x THEN next_power_of_2_loop(n * 2, x) ELSE n

next_power_of_2(x) == next_power_of_2_loop(MinCapacity, x)

\* The allocator's realloc: the first min(old, new) elements are kept, the
\* rest of the new block holds g.
resize_pointer(values, ncap, g) ==
    [k \in 0 .. ncap - 1 |-> IF k \in DOMAIN values THEN values[k] ELSE g]

new_dyarray(t) ==
    LET len  == Len(t)
        cap  == next_power_of_2(len)
        read == [k \in 0 .. cap - 1 |-> IF k < len THEN t[k + 1] ELSE 0]
    IN  [length |-> len, capacity |-> cap, values |-> c_clear_values(read, len, cap)]

get_dyarray(self, i, g) ==
    IF ~argcheck_index(self, i) THEN DyError(self, "index out of range")
    ELSE LET c_idx == resolve_index(self, i)
         IN  [DyOutcome(self) EXCEPT !.ret = RawRead(self.values, c_idx, g),
                                     !.oobR = c_idx \notin DOMAIN self.values]

set_dyarray(self, i, v) ==
    IF ~argcheck_index(self, i) THEN DyError(self, "index out of range")
    ELSE LET c_idx == resolve_index(self, i)
         IN  [DyOutcome([self EXCEPT !.values = RawWrite(@, c_idx, v)])
                EXCEPT !.oobW = c_idx \notin DOMAIN self.values]

c_resize_dyarray(self, nlen, ncap, g) ==
    LET tmp == resize_pointer(self.values, ncap, g)
    IN  [length |-> nlen, capacity |-> ncap,
         values |-> c_clear_values(tmp, self.length, ncap)]

resize_dyarray(self, nlen, g) ==
    IF nlen < 0 THEN DyError(self, "Cannot resize")
    ELSE DyOutcome(c_resize_dyarray(self, nlen, next_power_of_2(nlen), g))

c_insert_dyarray(self, c_idx, n, g) ==
    LET grown == IF c_idx >= self.capacity
                 THEN c_resize_dyarray(self, c_idx, next_power_of_2(c_idx), g)
                 ELSE self
    IN  [DyOutcome([grown EXCEPT !.values = RawWrite(@, c_idx, n),
                                 !.length = IF c_idx >= @ THEN c_idx + 1 ELSE @])
           EXCEPT !.oobW = c_idx \notin DOMAIN grown.values]

insert_dyarray(self, i, n, g) ==
    LET idx == resolve_index(self, i)
    IN  IF idx < 0 THEN DyError(self, "0 is not a valid index")
        ELSE c_insert_dyarray(self, idx, n, g)

push_dyarray(self, n, g) == c_insert_dyarray(self, self.length, n, g)

\* The later revision (src/src/dyarray.c, lines 455-957): insert is range
\* checked, push_back and pop_back are added.

\* c_insert_dyarray of the later revision: it no longer resizes.
c_insert_dyarray2(self, c_idx, n) ==
    [DyOutcome([self EXCEPT !.values = RawWrite(@, c_idx, n),
                            !.length = IF c_idx >= @ THEN c_idx + 1 ELSE @])
       EXCEPT !.oobW = c_idx \notin DOMAIN self.values]

\* for (int i = c_idx; i < len; i++) self->values[i] = self->values[i + 1];
RECURSIVE c_remove_dyarray_loop(_, _, _, _)
c_remove_dyarray_loop(values, i, len, g) ==
    IF i >= len THEN values
    ELSE c_remove_dyarray_loop(RawWrite(values, i, RawRead(values, i + 1, g)),
                               i + 1, len, g)

c_remove_dyarray(self, c_idx, g) ==
    LET len == self.length
    IN  [DyOutcome([self EXCEPT !.values = c_remove_dyarray_loop(@, c_idx, len, g),
                                !.length = len - 1])
           EXCEPT !.ret = RawRead(self.values, c_idx, g),
                  !.oobR = (c_idx \notin DOMAIN self.values)
                               \/ (c_idx < len /\ len \notin DOMAIN self.values),
                  !.oobW = (c_idx < len /\ len - 1 \notin DOMAIN self.values)]

\* insert_dyarray of the later revision.
insert_dyarray2(self, i, n) ==
    IF ~argcheck_index(self, i) THEN DyError(self, "index out of range")
    ELSE c_insert_dyarray2(self, resolve_index(self, i), n)

remove_dyarray(self, i, g) ==
    IF ~argcheck_index(self, i) THEN DyError(self, "index out of range")
    ELSE c_remove_dyarray(self, resolve_index(self, i), g)

push_back_dyarray(self, n, g) ==
    LET len   == self.length
        grown == IF len >= self.capacity
                 THEN c_resize_dyarray(self, len, next_power_of_2(len), g)
                 ELSE self
    IN  c_insert_dyarray2(grown, len, n)

pop_back_dyarray(self, g) ==
    IF self.length <= 0 THEN DyError(self, "Nothing to pop")
    ELSE c_remove_dyarray(self, self.length - 1, g)

\* mt_index with a number key.
mt_index(self, key, g) == get_dyarray(self, key, g)

\* ------------------------------------------------------------------ state

VARIABLES
    buf,      \* the BigInt: digits, length, capacity
    pre,      \* the BigInt before the last call
    call,     \* the last call: its name and arguments
    res,      \* what the last call returned and touched
    out,      \* the text the last print() wrote
    text,     \* the argument of copy_string()
    nops,     \* calls made on this buffer
    crashed,  \* a call ran off through memory
    arr,      \* the DyArray: length, capacity, values
    apre,     \* the DyArray before the last call
    acall,    \* the last call on the DyArray: its name and arguments
    ares      \* what that call returned, raised and touched

dyvars == << arr, apre, acall, ares >>

vars == << buf, pre, call, res, out, text, nops, crashed, arr, apre, acall, ares >>

\* No DyArray exists while the BigInt functions are exercised.
NoDyArray ==
    /\ arr = [length |-> 0, capacity |-> 0, values |-> << >>]
    /\ apre = arr
    /\ acall = [name |-> "none", i |-> 0, v |-> 0]
    /\ ares = [err |-> "", ret |-> 0, oobR |-> FALSE, oobW |-> FALSE]

Call(name, i, d, n) == [name |-> name, i |-> i, d |-> d, n |-> n]

Res(o) == [ok |-> o.ok, ret |-> o.ret, oobR |-> o.oobR, oobW |-> o.oobW, iters |-> o.iters]

\* One call on the buffer with outcome o.
Apply(c, o) ==
    /\ ~crashed
    /\ nops < MaxOps
    /\ pre' = buf
    /\ buf' = o.self
    /\ call' = c
    /\ res' = Res(o)
    /\ out' = << >>
    /\ crashed' = o.crash
    /\ nops' = nops + 1
    /\ UNCHANGED text
    /\ UNCHANGED dyvars

Init ==
    /\ \E sv \in Texts : buf = copy_string(sv)
    /\ pre = buf
    /\ call = Call("copy_string", 0, 0, 0)
    /\ res = Res(Outcome(buf))
    /\ out = << >>
    /\ text = << >>
    /\ nops = 0
    /\ crashed = FALSE
    /\ NoDyArray

PushLeft == \E d \in DigitArgs : Apply(Call("push_left", 0, d, 0), push_left(buf, d))

PopLeft == \E g \in GarbageBytes : Apply(Call("pop_left", 0, 0, 0), pop_left(buf, g))

ShiftLeft1 == \E g \in GarbageBytes : Apply(Call("shift_left1", 0, 0, 0), shift_left1(buf, g))

PushRight ==
    \E d \in DigitArgs, g \in GarbageBytes :
        Apply(Call("push_right", 0, d, 0), push_right(buf, d, g))

PopRight == \E g \in GarbageBytes : Apply(Call("pop_right", 0, 0, 0), pop_right(buf, g))

ShiftRight1 == \E g \in GarbageBytes : Apply(Call("shift_right1", 0, 0, 0), shift_right1(buf, g))

ReadAt ==
    \E i \in IndexArgs :
        Apply(Call("read_at", i, 0, 0), [Outcome(buf) EXCEPT !.ret = read_at(buf, i)])

WriteAt == \E i \in IndexArgs, d \in DigitArgs : Apply(Call("write_at", i, d, 0), write_at(buf, i, d))

AddAt == \E i \in IndexArgs, d \in DigitArgs : Apply(Call("add_at", i, d, 0), add_at(buf, i, d))

Add == \E n \in IntArgs : Apply(Call("add", 0, 0, n), add(buf, n))

\* Apply, for a call that writes text.
PrintBuf ==
    /\ ~crashed
    /\ nops < MaxOps
    /\ pre' = buf
    /\ call' = Call("print", 0, 0, 0)
    /\ res' = Res(Outcome(buf))
    /\ out' = print(buf).out
    /\ crashed' = print(buf).crash
    /\ nops' = nops + 1
    /\ UNCHANGED << buf, text >>
    /\ UNCHANGED dyvars

Next ==
    \/ PushLeft
    \/ PopLeft
    \/ ShiftLeft1
    \/ PushRight
    \/ PopRight
    \/ ShiftRight1
    \/ ReadAt
    \/ WriteAt
    \/ AddAt
    \/ Add
    \/ PrintBuf

Spec == Init /\ [][Next]_vars

\* ------------------------------------------- parsing and printing a text

InitParse ==
    /\ text \in Texts
    /\ buf = create
    /\ pre = buf
    /\ call = Call("create", 0, 0, 0)
    /\ res = Res(Outcome(buf))
    /\ out = << >>
    /\ nops = 0
    /\ crashed = FALSE
    /\ NoDyArray

CopyString ==
    /\ call.name = "create"
    /\ Apply(Call("copy_string", 0, 0, 0), Outcome(copy_string(text)))

NextParse ==
    \/ CopyString
    \/ call.name # "create" /\ PrintBuf

SpecParse == InitParse /\ [][NextParse]_vars

\* ---------------------------------------------------- calls on a DyArray

DyCall(name, i, v) == [name |-> name, i |-> i, v |-> v]

DyRes(o) == [err |-> o.err, ret |-> o.ret, oobR |-> o.oobR, oobW |-> o.oobW]

\* One call on the array with outcome o. A call that raised an error has
\* changed nothing; after a write outside the allocation the heap is
\* corrupt and the run ends.
DyApply(c, o) ==
    /\ ~ares.oobW
    /\ nops < MaxDyOps
    /\ apre' = arr
    /\ arr' = o.self
    /\ acall' = c
    /\ ares' = DyRes(o)
    /\ nops' = nops + 1
    /\ UNCHANGED << buf, pre, call, res, out, text, crashed >>

InitDyArray ==
    /\ \E t \in Tables : arr = new_dyarray(t)
    /\ apre = arr
    /\ acall = DyCall("new", 0, 0)
    /\ ares = DyRes(DyOutcome(arr))
    /\ buf = create
    /\ pre = buf
    /\ call = Call("none", 0, 0, 0)
    /\ res = Res(Outcome(buf))
    /\ out = << >>
    /\ text = << >>
    /\ nops = 0
    /\ crashed = FALSE

Get ==
    \E i \in LuaIndexArgs, g \in GarbageNumbers :
        DyApply(DyCall("get", i, 0), get_dyarray(arr, i, g))

Set ==
    \E i \in LuaIndexArgs, v \in NumberArgs :
        DyApply(DyCall("set", i, v), set_dyarray(arr, i, v))

MtIndex ==
    \E i \in LuaIndexArgs, g \in GarbageNumbers :
        DyApply(DyCall("__index", i, 0), mt_index(arr, i, g))

MtNewIndex ==
    \E i \in LuaIndexArgs, v \in NumberArgs :
        DyApply(DyCall("__newindex", i, v), set_dyarray(arr, i, v))

Insert ==
    \E i \in InsertIndexArgs, v \in NumberArgs, g \in GarbageNumbers :
        DyApply(DyCall("insert", i, v), insert_dyarray(arr, i, v, g))

Push ==
    \E v \in NumberArgs, g \in GarbageNumbers :
        DyApply(DyCall("push", 0, v), push_dyarray(arr, v, g))

Resize ==
    \E nlen \in LengthArgs, g \in GarbageNumbers :
        DyApply(DyCall("resize", nlen, 0), resize_dyarray(arr, nlen, g))

NextDyArray ==
    \/ Get
    \/ Set
    \/ MtIndex
    \/ MtNewIndex
    \/ Insert
    \/ Push
    \/ Resize

SpecDyArray == InitDyArray /\ [][NextDyArray]_vars

\* The later revision's calls.
PushBack ==
    \E v \in NumberArgs, g \in GarbageNumbers :
        DyApply(DyCall("push_back", 0, v), push_back_dyarray(arr, v, g))

PopBack ==
    \E g \in GarbageNumbers :
        DyApply(DyCall("pop_back", 0, 0), pop_back_dyarray(arr, g))

InsertChecked ==
    \E i \in InsertIndexArgs, v \in NumberArgs :
        DyApply(DyCall("insert", i, v), insert_dyarray2(arr, i, v))

Remove ==
    \E i \in InsertIndexArgs, g \in GarbageNumbers :
        DyApply(DyCall("remove", i, 0), remove_dyarray(arr, i, g))

NextDyArray2 ==
    \/ PushBack
    \/ PopBack
    \/ InsertChecked
    \/ Remove
    \/ Resize
    \/ Set

SpecDyArray2 == InitDyArray /\ [][NextDyArray2]_vars

\* ----------------------------------------------------- claim vocabulary

RECURSIVE Pow10(_)
Pow10(n) == IF n = 0 THEN 1 ELSE 10 * Pow10(n - 1)

\* The number the active digits denote: sum of digits[k] * 10^k, k < length.
RECURSIVE ValueBelow(_, _)
ValueBelow(b, n) ==
    IF n = 0 THEN 0
    ELSE ValueBelow(b, n - 1) + b.digits[n - 1] * Pow10(n - 1)

Value(b) == ValueBelow(b, IF b.length <= NUM_DIGITS THEN b.length ELSE NUM_DIGITS)

IsDigitChar(ch) == ch \in 48 .. 57

IsSeparator(ch) == ch \in {32, 9, 10, 11, 12, 13, 95}

StripSeparators(sv) == SelectSeq(sv, LAMBDA ch : ~IsSeparator(ch))

DigitCount(sv) == Len(SelectSeq(sv, IsDigitChar))

DecimalText(sv) == \A k \in 1 .. Len(sv) : IsDigitChar(sv[k]) \/ IsSeparator(sv[k])

Unmodified == buf = pre

\* ----------------------------------------------------------------- claims

\* C1: after any sequence of the public operations on a buffer from create()
\* or copy_string(), 0 <= length <= capacity.
C1_LengthWithinCapacity == 0 <= buf.length /\ buf.length <= buf.capacity

\* C2: every stored digit at an index below length is in 0..9.
C2_ActiveDigitsDecimal ==
    \A k \in Slots : k < buf.length => buf.digits[k] \in 0 .. 9

\* C3: every slot at an index i with length <= i < capacity holds 0, so that
\* read_at(i) returns 0 there.
C3_UnusedSlotsZero ==
    \A k \in Slots : k >= buf.length => (buf.digits[k] = 0 /\ read_at(buf, k) = 0)

\* C4: push_right(d) on a buffer with length == capacity leaves the buffer
\* unmodified, the digit at index 0 included.
C4_PushRightFullUnmodified ==
    (call.name = "push_right" /\ pre.length = pre.capacity) => Unmodified

\* C5: shift_right1 on a buffer with length == 0 is a no-op: length stays 0
\* and no digit slot is written.
C5_ShiftRightEmptyNoOp ==
    (call.name = "shift_right1" /\ pre.length = 0) =>
        (buf.length = 0 /\ buf.digits = pre.digits /\ ~res.oobW)

\* C6: write_at(i, d) with i < capacity and d outside 0..9 reports failure
\* and leaves the buffer unchanged.
C6_WriteAtRejectsInvalidDigit ==
    (call.name = "write_at" /\ call.i < pre.capacity /\ call.d \notin 0 .. 9) =>
        (~res.ok /\ Unmodified)

\* C7: add_at(b, i, d) with i < capacity, d in 0..9 and
\* value(b) + d*10^i < 10^capacity adds d*10^i to the value of the buffer.
C7_AddAtAddsPlaceValue ==
    (/\ call.name = "add_at"
     /\ pre.length <= pre.capacity
     /\ call.i < pre.capacity
     /\ call.d \in 0 .. 9
     /\ Value(pre) + call.d * Pow10(call.i) < Pow10(pre.capacity)) =>
        Value(buf) = Value(pre) + call.d * Pow10(call.i)

\* C8: add(b, n) with n >= 0 and value(b) + n < 10^capacity leaves the active
\* digits denoting value(b) + n.
C8_AddAddsNumber ==
    (/\ call.name = "add"
     /\ pre.length <= pre.capacity
     /\ call.n >= 0
     /\ Value(pre) + call.n < Pow10(pre.capacity)) =>
        Value(buf) = Value(pre) + call.n

\* C9 as stated: for every text of decimal digits and separators, printing
\* the parsed buffer gives the text with the separators removed, and length
\* is the number of digit characters.
C9_RoundTripAnyLength ==
    (call.name = "print" /\ DecimalText(text)) =>
        (out = StripSeparators(text) /\ buf.length = DigitCount(text))

\* C9 as amended: the same for every such text with at most capacity digit
\* characters.
C9_RoundTripWithinCapacity ==
    (call.name = "print" /\ DecimalText(text) /\ DigitCount(text) <= buf.capacity) =>
        (out = StripSeparators(text) /\ buf.length = DigitCount(text))

\* A text with a leading zero and both separators was parsed and printed.
C9_Witness ==
    /\ call.name = "print"
    /\ text = << 48, 95, 49, 32 >>
    /\ out = << 48, 49 >>

\* C10: push_left(d) returns false and changes neither length nor any digit
\* when length == capacity, and also when d is not in 0..9.
C10_PushLeftFailureNoOp ==
    (call.name = "push_left" /\ (pre.length = pre.capacity \/ call.d \notin 0 .. 9)) =>
        (~res.ok /\ Unmodified)

\* A valid digit was pushed on a buffer that an earlier call had filled.
C10_Witness ==
    /\ call.name = "push_left"
    /\ call.d = 9
    /\ pre.length = pre.capacity
    /\ nops = 2
    /\ ~res.ok

\* C11: push_left(d) with d in 0..9 on a buffer with length < capacity makes
\* d the new most-significant digit: length grows by 1, the digit at the old
\* length index is d, and every digit at a lower index is unchanged.
C11_PushLeftAppends ==
    (call.name = "push_left" /\ call.d \in 0 .. 9 /\ pre.length < pre.capacity) =>
        /\ res.ok
        /\ buf.length = pre.length + 1
        /\ buf.digits[pre.length] = call.d
        /\ \A k \in Slots : k < pre.length => buf.digits[k] = pre.digits[k]

\* 9 was pushed above the digits of a buffer one short of full.
C11_Witness ==
    /\ call.name = "push_left"
    /\ call.d = 9
    /\ res.ok
    /\ pre.length = NUM_DIGITS - 1
    /\ pre.digits[0] = 1
    /\ buf.digits[NUM_DIGITS - 1] = 9

\* C12: push_right(d) with d in 0..9 on a buffer with length < capacity moves
\* every previous digit from index i to i+1, stores d at index 0, grows
\* length by 1, and makes the value 10*value + d.
C12_PushRightShiftsAndStores ==
    (call.name = "push_right" /\ call.d \in 0 .. 9 /\ pre.length < pre.capacity) =>
        /\ buf.length = pre.length + 1
        /\ buf.digits[0] = call.d
        /\ \A k \in Slots : k < pre.length => buf.digits[k + 1] = pre.digits[k]
        /\ Value(buf) = 10 * Value(pre) + call.d

\* 1 was pushed below the two digits 1, 9 of "19".
C12_Witness ==
    /\ call.name = "push_right"
    /\ call.d = 1
    /\ pre.length = 2
    /\ pre.digits[0] = 9
    /\ pre.digits[1] = 1
    /\ buf.length = 3
    /\ buf.digits[1] = 9
    /\ buf.digits[2] = 1

\* C13: pop_right on a non-empty buffer returns the digit that was at index
\* 0, moves every remaining digit one index down and shrinks length by 1, so
\* the value becomes value div 10 and the returned digit is value mod 10; on
\* an empty buffer it returns 0 and leaves length == 0 and all digits
\* unchanged.
C13_PopRightDividesByTen ==
    call.name = "pop_right" =>
        IF pre.length = 0
        THEN res.ret = 0 /\ Unmodified
        ELSE /\ res.ret = pre.digits[0]
             /\ buf.length = pre.length - 1
             /\ \A k \in Slots : k < buf.length =>
                    (k + 1 \in Slots /\ buf.digits[k] = pre.digits[k + 1])
             /\ Value(buf) = Value(pre) \div 10
             /\ res.ret = Value(pre) % 10

\* C14: pop_left on a non-empty buffer returns the digit at index length-1,
\* shrinks length by 1 and leaves every digit at a lower index unchanged; on
\* an empty buffer it returns 0 and the buffer remains at length == 0.
C14_PopLeftReturnsTopDigit ==
    call.name = "pop_left" =>
        IF pre.length = 0
        THEN res.ret = 0 /\ buf.length = 0
        ELSE /\ pre.length - 1 \in Slots
             /\ res.ret = pre.digits[pre.length - 1]
             /\ buf.length = pre.length - 1
             /\ \A k \in Slots : k < buf.length => buf.digits[k] = pre.digits[k]

\* The text of the `length` digits from index length-1 down to index 0.
RECURSIVE ActiveDigitsText(_, _)
ActiveDigitsText(b, k) ==
    IF k = 0 THEN << >>
    ELSE << 48 + b.digits[k - 1] >> \o ActiveDigitsText(b, k - 1)

\* C15: a buffer with length == 0 is printed as "0"; a non-empty buffer is
\* printed as exactly its length active digits from index length-1 down to
\* index 0.
C15_PrintRendersValue ==
    call.name = "print" =>
        IF pre.length = 0
        THEN out = << 48 >>
        ELSE /\ pre.length <= NUM_DIGITS
             /\ out = ActiveDigitsText(pre, pre.length)

\* C16: for a buffer with length < capacity, shift_left1 followed by
\* shift_right1 restores it exactly: same length, same digit at every index.
C16_ShiftLeftRightRestores ==
    buf.length < buf.capacity =>
        \A g1, g2 \in GarbageBytes :
            shift_right1(shift_left1(buf, g1).self, g2).self = buf

\* C17: on a non-empty buffer, pop_left followed by push_left of the
\* returned digit restores the buffer (length and active digits); on an
\* empty buffer the chain changes nothing.
C17_PopLeftPushLeftRestores ==
    \A g \in GarbageBytes :
        LET popped == pop_left(buf, g)
            pushed == push_left(popped.self, popped.ret).self
        IN  IF buf.length = 0
            THEN popped.self = buf
            ELSE /\ pushed.length = buf.length
                 /\ \A k \in Slots : k < buf.length =>
                        pushed.digits[k] = buf.digits[k]

\* C18: write_at(b, i, d) with length <= i < capacity and a valid d sets the
\* digit at i to d and length to i+1, and every index j with old length <=
\* j < i then reads 0, in any state reachable by earlier pushes, pops and
\* shifts; with i < length it only replaces the digit at i.
C18_WriteAtGrowsOverZeros ==
    (call.name = "write_at" /\ call.d \in 0 .. 9 /\ call.i < pre.capacity) =>
        IF call.i >= pre.length
        THEN /\ buf.digits[call.i] = call.d
             /\ buf.length = call.i + 1
             /\ \A j \in Slots : (pre.length <= j /\ j < call.i) =>
                    read_at(buf, j) = 0
        ELSE buf = [pre EXCEPT !.digits[call.i] = call.d]

\* C19: read_at(b, i) never fails and never modifies the buffer; for
\* i >= capacity it returns 0, and for i < length it returns the digit
\* stored at index i.
C19_ReadAtTotal ==
    call.name = "read_at" =>
        /\ res.ok
        /\ Unmodified
        /\ (call.i >= pre.capacity => res.ret = 0)
        /\ ((call.i < pre.length /\ call.i \in Slots) => res.ret = pre.digits[call.i])

C19_Witness ==
    /\ call.name = "read_at"
    /\ call.i = 1
    /\ pre.length = 2
    /\ pre.digits[0] = 9
    /\ res.ret = 1

\* C20: write_at(b, i, d) with i >= capacity returns false and leaves
\* length, capacity and all digits unchanged.
C20_WriteAtRejectsIndex ==
    (call.name = "write_at" /\ call.i >= pre.capacity) =>
        ~res.ok /\ Unmodified

C20_Witness ==
    /\ call.name = "write_at"
    /\ call.i = NUM_DIGITS
    /\ call.d = 9
    /\ pre.length = 1
    /\ ~res.ok

\* C21: add_at(i, d) with d >= 10, or with i >= capacity, leaves the buffer
\* unchanged: length and every digit are as before.
C21_AddAtRejectsBadInput ==
    (call.name = "add_at" /\ (call.d >= DIGIT_BASE \/ call.i >= pre.capacity)) =>
        Unmodified

C21_Witness ==
    /\ call.name = "add_at"
    /\ call.d = 10
    /\ call.i = 0
    /\ pre.length = 2
    /\ pre.digits[0] = 9
    /\ Unmodified

\* The number of writes add_at's loop made: one per iteration, except that
\* the iteration at index == capacity fails its write.
AddAtWrites(i, iters, capacity) ==
    IF i + iters > capacity THEN capacity - i ELSE iters

\* C22 (as stated): add_at(b, 0, d) for d in 0..9 changes length only when
\* a carry propagates to an index >= the length before the call; on every
\* reachable b, including the empty buffer.
C22_LengthChangesOnlyOnCarry ==
    (call.name = "add_at" /\ call.i = 0 /\ call.d \in 0 .. 9) =>
        (buf.length # pre.length =>
            /\ res.iters >= 2
            /\ AddAtWrites(0, res.iters, pre.capacity) > pre.length)

\* C22 (amended): add_at(b, 0, d) for d in 0..9 changes length only when it
\* writes an index >= the length before the call, which is either index 0
\* of an empty buffer or an index a carry propagated to; length is then the
\* highest written index plus one.
C22_LengthChangesOnlyOnUnusedIndex ==
    (call.name = "add_at" /\ call.i = 0 /\ call.d \in 0 .. 9) =>
        LET writes == AddAtWrites(0, res.iters, pre.capacity)
        IN  IF writes > pre.length
            THEN buf.length = writes
            ELSE buf.length = pre.length

C22_Witness ==
    /\ call.name = "add_at"
    /\ call.i = 0
    /\ call.d = 1
    /\ pre.length = 0
    /\ res.iters = 1
    /\ buf.length = 1

\* C23: add(n) with n < 0 leaves the buffer unchanged: no digit and no
\* length changes.
C23_AddRejectsNegative ==
    (call.name = "add" /\ call.n < 0) => Unmodified

C23_Witness ==
    /\ call.name = "add"
    /\ call.n = -1
    /\ pre.length = 2
    /\ pre.digits[1] = 1
    /\ Unmodified

\* C24: capacity is the fixed number of digit slots set by create() and no
\* operation changes it.
C24_CapacityFixed ==
    /\ buf.capacity = NUM_DIGITS
    /\ buf.capacity = pre.capacity

C24_Witness ==
    /\ nops = MaxOps
    /\ call.name = "push_left"
    /\ ~res.ok
    /\ pre.length = NUM_DIGITS
    /\ buf.capacity = NUM_DIGITS

\* C25: shift_left1 on a buffer with length < capacity grows length by 1,
\* moves every previous digit at index i to index i+1 (no digit is
\* overwritten before it is read) and sets index 0 to zero; on a buffer
\* with length == capacity it returns false and leaves the buffer unchanged.
C25_ShiftLeftMovesUp ==
    call.name = "shift_left1" =>
        IF pre.length < pre.capacity
        THEN /\ res.ok
             /\ buf.length = pre.length + 1
             /\ buf.digits[0] = 0
             /\ \A k \in Slots : k < pre.length => buf.digits[k + 1] = pre.digits[k]
        ELSE ~res.ok /\ Unmodified

C25_Witness ==
    /\ call.name = "shift_left1"
    /\ pre.length = 2
    /\ pre.digits[0] = 9
    /\ pre.digits[1] = 1
    /\ buf.length = 3
    /\ buf.digits[0] = 0
    /\ buf.digits[1] = 9
    /\ buf.digits[2] = 1

\* C26: shift_right1 on a buffer with length in 1..capacity moves every
\* digit at index i+1 to index i, sets the vacated top slot (old index
\* length-1) to zero and shrinks length by 1; length == capacity included.
C26_ShiftRightMovesDown ==
    (call.name = "shift_right1" /\ pre.length \in 1 .. pre.capacity) =>
        /\ buf.length = pre.length - 1
        /\ buf.digits[pre.length - 1] = 0
        /\ \A k \in Slots : k < pre.length - 1 => buf.digits[k] = pre.digits[k + 1]

C26_Witness ==
    /\ call.name = "shift_right1"
    /\ pre.length = NUM_DIGITS
    /\ pre.digits[NUM_DIGITS - 1] = 1
    /\ pre.digits[NUM_DIGITS - 2] = 9
    /\ buf.length = NUM_DIGITS - 1
    /\ buf.digits[NUM_DIGITS - 2] = 1
    /\ buf.digits[NUM_DIGITS - 1] = 0

\* The digit characters of a text, in the text's order.
DigitChars(sv) == SelectSeq(sv, IsDigitChar)

\* C27 (as stated): copy_string stores no character outside '0'..'9' as a
\* digit and such a character does not change length; the remaining digit
\* characters are all stored, in order, with the last one at index 0.
C27_OnlyDigitCharsStored ==
    call.name = "copy_string" =>
        LET ds == DigitChars(text)
        IN  /\ buf.length = Len(ds)
            /\ \A k \in Slots : k < buf.length => buf.digits[k] = ds[Len(ds) - k] - 48

\* C27 (amended): the same, where the digit characters stored are the last
\* capacity ones when the text has more than capacity of them.
C27_OnlyDigitCharsStoredUpToCapacity ==
    call.name = "copy_string" =>
        LET ds == DigitChars(text)
            n  == IF Len(ds) <= buf.capacity THEN Len(ds) ELSE buf.capacity
        IN  /\ buf.length = n
            /\ \A k \in Slots : k < n => buf.digits[k] = ds[Len(ds) - k] - 48

C27_Witness ==
    /\ call.name = "copy_string"
    /\ text = << 49, 97, 57, 47 >>
    /\ buf.length = 2
    /\ buf.digits[0] = 9
    /\ buf.digits[1] = 1

\* The number of decimal digits of a positive n.
RECURSIVE DecimalDigits(_)
DecimalDigits(n) == IF n < 10 THEN 1 ELSE 1 + DecimalDigits(n \div 10)

\* C30: add_at's carry loop runs at most capacity - i + 1 iterations, and a
\* single one when i >= capacity or when the first sum leaves no carry; it
\* does not run for an invalid d. add(n) with n >= 0 ends after one add_at
\* call per decimal digit of n (none for n == 0).
C30_AddTerminates ==
    /\ call.name = "add_at" =>
        /\ res.iters <= (IF call.i >= pre.capacity THEN 1 ELSE pre.capacity - call.i + 1)
        /\ (call.d \in 0 .. 9 => res.iters >= 1)
        /\ ((call.d \in 0 .. 9 /\ read_at(pre, call.i) + call.d < DIGIT_BASE) => res.iters = 1)
        /\ (call.d \notin 0 .. 9 => res.iters = 0)
    /\ (call.name = "add" /\ call.n >= 0) =>
        res.iters = (IF call.n = 0 THEN 0 ELSE DecimalDigits(call.n))

C30_Witness ==
    /\ call.name = "add_at"
    /\ call.i = 0
    /\ call.d = 1
    /\ pre.length = NUM_DIGITS
    /\ \A k \in Slots : pre.digits[k] = 9
    /\ res.iters = NUM_DIGITS + 1

\* A Lua index that names one of the active elements 1 .. len, counted from
\* the front (1 .. len) or from the back (-1 .. -len).
NamesActiveElement(i, len) == (1 <= i /\ i <= len) \/ (0 - len <= i /\ i <= -1)

\* The C index of the element a Lua index names.
ElementIndex(i, len) == IF i < 0 THEN len + i ELSE i - 1

C29_InsertBeyondLength ==
    acall.name = "insert" =>
        /\ acall.i > apre.length =>
            /\ ares.err = ""
            /\ arr.length = acall.i
            /\ acall.i - 1 \in DOMAIN arr.values
            /\ arr.values[acall.i - 1] = acall.v
            /\ \A j \in DOMAIN arr.values :
                   (apre.length <= j /\ j < acall.i - 1) => arr.values[j] = 0
        /\ (acall.i < 0 /\ 0 - acall.i <= apre.length) =>
            /\ ares.err = ""
            /\ arr = [apre EXCEPT !.values[apre.length + acall.i] = acall.v]

C32_NoAccessOutsideSlots ==
    (\/ call.name \in {"add_at", "write_at", "read_at"}
     \/ (call.name = "shift_left1" /\ pre.length < pre.capacity)
     \/ (call.name \in {"shift_right1", "pop_right"} /\ pre.length <= pre.capacity)) =>
        (~res.oobR /\ ~res.oobW)

\* C33: in every state reachable through new, push, insert and resize,
\* length <= capacity holds and every element write targets a C index
\* below capacity: when the target index is >= capacity (a push with
\* length == capacity, say) the array is first grown to a capacity
\* strictly greater than that index.
C33_WritesWithinCapacity ==
    /\ arr.length <= arr.capacity
    /\ ~ares.oobW
    /\ ((acall.name \in {"push", "insert"} /\ ares.err = "") =>
            arr.length - 1 < arr.capacity)

\* C34: push(v) followed by pop() returns v and restores the previous
\* length and elements; pop on an array with length 0 raises an error and
\* leaves length at 0.
C34_PushPopRestores ==
    /\ \A v \in NumberArgs, g1 \in GarbageNumbers, g2 \in GarbageNumbers :
           LET pushed == push_back_dyarray(arr, v, g1)
               popped == pop_back_dyarray(pushed.self, g2)
           IN  /\ pushed.err = ""
               /\ popped.err = ""
               /\ popped.ret = v
               /\ popped.self.length = arr.length
               /\ \A k \in DOMAIN arr.values :
                      k < arr.length =>
                          (k \in DOMAIN popped.self.values
                           /\ popped.self.values[k] = arr.values[k])
    /\ arr.length = 0 =>
           \A g \in GarbageNumbers :
               /\ pop_back_dyarray(arr, g).err = "Nothing to pop"
               /\ pop_back_dyarray(arr, g).self = arr

====
